---------------------------- MODULE Spec2Model ----------------------------
(***************************************************************************)
(* Fyyur: the controllers of src/app.py over the tables of src/models.py.  *)
(*                                                                         *)
(* The state is the content of the three tables, their id sequences, the   *)
(* server clock and the response of the last request.  Every route handler *)
(* is one action: a request runs to completion (spec 5: synchronous        *)
(* request handling).                                                      *)
(*                                                                         *)
(* Text that the code searches or sorts (name, city, state, phone) is a    *)
(* sequence of one-character strings; text that is only stored and copied  *)
(* (address, links, descriptions) is a TLA+ string.  A time is a whole     *)
(* number of clock ticks.                                                  *)
(***************************************************************************)
EXTENDS Integers, Sequences, FiniteSets

VARIABLES
    Venue,          \* table "venues": id -> row                 (models.py 4-19)
    Artist,         \* table "artists": id -> row                (models.py 25-39)
    Show,           \* table "Show": id -> row                   (models.py 45-51)
    venue_id_seq,   \* last value of the venues.id sequence      (models.py 7)
    artist_id_seq,  \* last value of the artists.id sequence     (models.py 28)
    show_id_seq,    \* last value of the Show.id sequence        (models.py 48)
    now,            \* datetime.now(), in ticks
    resp,           \* the last request and its response
    session         \* db.session of each request in flight     (app.py 290, 338)

vars ==
    <<Venue, Artist, Show, venue_id_seq, artist_id_seq, show_id_seq, now, resp, session>>
tables == <<Venue, Artist, Show, venue_id_seq, artist_id_seq, show_id_seq>>

-----------------------------------------------------------------------------
(* Bounds of the model.                                                    *)

MaxVenues == 2
MaxArtists == 1
MaxShows == 2
MaxTime == 1

VenueIds == 1..MaxVenues
ArtistIds == 1..MaxArtists
Times == 0..MaxTime

-----------------------------------------------------------------------------
(* Text.                                                                   *)

\* The characters of the model in code-point order.
Alphabet ==
    <<"%", "-", "0", "1", "2", "3", "4", "5", "6", "7", "8", "9",
      "A", "B", "C", "D", "E", "F", "G", "H", "I", "J", "K", "L", "M",
      "N", "O", "P", "Q", "R", "S", "T", "U", "V", "W", "X", "Y", "Z",
      "_", "a", "b">>

Digits == {"0", "1", "2", "3", "4", "5", "6", "7", "8", "9"}

Ord(c) == CHOOSE i \in 1..Len(Alphabet) : Alphabet[i] = c

\* Case folding as ILIKE does it, on the letters names are written with.
ToLower(c) == IF c = "A" THEN "a" ELSE IF c = "B" THEN "b" ELSE c

\* s < t for two texts, as ORDER BY compares them.
RECURSIVE StrLess(_, _)
StrLess(s, t) ==
    IF t = <<>> THEN FALSE
    ELSE IF s = <<>> THEN TRUE
    ELSE IF Head(s) # Head(t) THEN Ord(Head(s)) < Ord(Head(t))
    ELSE StrLess(Tail(s), Tail(t))

\* expr ILIKE pattern: "%" matches any run of characters, "_" any single
\* character, every other character itself, ignoring case.
RECURSIVE Ilike(_, _)
Ilike(s, p) ==
    IF p = <<>> THEN s = <<>>
    ELSE IF Head(p) = "%"
        THEN Ilike(s, Tail(p)) \/ (s # <<>> /\ Ilike(Tail(s), p))
    ELSE IF s = <<>> THEN FALSE
    ELSE IF Head(p) = "_" THEN Ilike(Tail(s), Tail(p))
    ELSE ToLower(Head(s)) = ToLower(Head(p)) /\ Ilike(Tail(s), Tail(p))

\* start_time.strftime("%m/%d/%Y, %H:%M"): the text of a time, which is not
\* the time itself.
Strftime(t) == <<"%m/%d/%Y, %H:%M", t>>

\* The elements of a finite set of integers in ascending order (the order in
\* which the tables' rows are loaded).
RECURSIVE Ascending(_)
Ascending(S) ==
    IF S = {} THEN <<>>
    ELSE LET m == CHOOSE x \in S : \A y \in S : x <= y
         IN <<m>> \o Ascending(S \ {m})

Range(s) == {s[i] : i \in 1..Len(s)}

\* The value Python's None stands for.
None == [None |-> TRUE]

-----------------------------------------------------------------------------
(* The validation forms (forms.py is not among the sources; spec 4.2).    *)
(* request.form is a record: a key that was not submitted is not in its    *)
(* DOMAIN; "genres" holds the list of its values, every other key its one  *)
(* value.                                                                  *)

\* The 50 state abbreviations and DC (spec 4.2, 6.5).
StateChoices == {
    <<"A","L">>, <<"A","K">>, <<"A","Z">>, <<"A","R">>, <<"C","A">>, <<"C","O">>, <<"C","T">>,
    <<"D","E">>, <<"D","C">>, <<"F","L">>, <<"G","A">>, <<"H","I">>, <<"I","D">>, <<"I","L">>,
    <<"I","N">>, <<"I","A">>, <<"K","S">>, <<"K","Y">>, <<"L","A">>, <<"M","E">>, <<"M","T">>,
    <<"N","E">>, <<"N","V">>, <<"N","H">>, <<"N","J">>, <<"N","M">>, <<"N","Y">>, <<"N","C">>,
    <<"N","D">>, <<"O","H">>, <<"O","K">>, <<"O","R">>, <<"M","D">>, <<"M","A">>, <<"M","I">>,
    <<"M","N">>, <<"M","S">>, <<"M","O">>, <<"P","A">>, <<"R","I">>, <<"S","C">>, <<"S","D">>,
    <<"T","N">>, <<"T","X">>, <<"U","T">>, <<"V","T">>, <<"V","A">>, <<"W","A">>, <<"W","V">>,
    <<"W","I">>, <<"W","Y">>}

\* The closed set of genre names (spec 4.2).
GenreChoices ==
    {"Alternative", "Blues", "Classical", "Country", "Electronic", "Folk", "Funk",
     "Hip-Hop", "Heavy Metal", "Instrumental", "Jazz", "Musical Theatre", "Pop",
     "Punk", "R&B", "Reggae", "Rock n Roll", "Soul", "Other"}

\* ###-###-####
PhoneOk(p) ==
    /\ Len(p) = 12
    /\ \A i \in 1..12 : IF i \in {4, 8} THEN p[i] = "-" ELSE p[i] \in Digits

\* The links of the model that are syntactically valid URLs.
WellFormedUrls == {"http://fyyur.io/a.png", "http://fyyur.io/b.png"}
UrlOk(u) == u \in WellFormedUrls

\* request.form.get(k, d)
Get(form, k, d) == IF k \in DOMAIN form THEN form[k] ELSE d

\* request.form.getlist(k)
Getlist(form, k) == IF k \in DOMAIN form THEN form[k] ELSE <<>>

Required(form, k, empty) ==
    IF Get(form, k, empty) = empty THEN <<<<k, "This field is required.">>>> ELSE <<>>

StateErrors(form) ==
    IF Get(form, "state", <<>>) = <<>> THEN <<<<"state", "This field is required.">>>>
    ELSE IF form["state"] \notin StateChoices THEN <<<<"state", "Not a valid choice.">>>>
    ELSE <<>>

PhoneErrors(form) ==
    IF Get(form, "phone", <<>>) # <<>> /\ ~PhoneOk(form["phone"])
    THEN <<<<"phone", "Invalid phone number.">>>> ELSE <<>>

LinkErrors(form, k) ==
    IF Get(form, k, "") # "" /\ ~UrlOk(form[k]) THEN <<<<k, "Invalid URL.">>>> ELSE <<>>

GenresErrors(form) ==
    IF Getlist(form, "genres") = <<>> THEN <<<<"genres", "This field is required.">>>>
    ELSE IF ~(Range(form["genres"]) \subseteq GenreChoices)
        THEN <<<<"genres", "Not a valid choice.">>>>
    ELSE <<>>

\* form.errors of a VenueForm, as (field, message) pairs.
VenueForm_errors(form) ==
    Required(form, "name", <<>>) \o Required(form, "city", <<>>) \o StateErrors(form)
    \o Required(form, "address", "") \o PhoneErrors(form)
    \o LinkErrors(form, "website_link") \o LinkErrors(form, "facebook_link")
    \o LinkErrors(form, "image_link") \o GenresErrors(form)

\* form.errors of an ArtistForm: a VenueForm without address.
ArtistForm_errors(form) ==
    Required(form, "name", <<>>) \o Required(form, "city", <<>>) \o StateErrors(form)
    \o PhoneErrors(form)
    \o LinkErrors(form, "website_link") \o LinkErrors(form, "facebook_link")
    \o LinkErrors(form, "image_link") \o GenresErrors(form)

\* form.errors of a ShowForm: three required fields.
RequiredKey(form, k) ==
    IF k \notin DOMAIN form THEN <<<<k, "This field is required.">>>> ELSE <<>>

ShowForm_errors(form) ==
    RequiredKey(form, "artist_id") \o RequiredKey(form, "venue_id")
    \o RequiredKey(form, "start_time")

\* The boolean of a checkbox: true iff its key was submitted.
Checked(form, k) == k \in DOMAIN form

-----------------------------------------------------------------------------
(* The requests of the model.                                             *)

PhoneA == <<"3", "2", "6", "-", "1", "2", "3", "-", "5", "0", "0", "0">>

VenueFormA ==
    [name |-> <<"A", "b">>, city |-> <<"S", "F">>, state |-> <<"C", "A">>,
     address |-> "1015 Folsom Street", phone |-> PhoneA, genres |-> <<"Jazz", "Folk">>,
     website_link |-> "", facebook_link |-> "", image_link |-> "http://fyyur.io/a.png",
     seeking_talent |-> "y", seeking_description |-> "Looking for talent"]

VenueFormB ==
    [name |-> <<"b">>, city |-> <<"N", "Y">>, state |-> <<"N", "Y">>,
     address |-> "335 Delancey Street", phone |-> <<>>, genres |-> <<"Rock n Roll">>,
     website_link |-> "http://fyyur.io/b.png", facebook_link |-> "", image_link |-> "",
     seeking_description |-> ""]

\* Every text field submitted empty, nothing selected, nothing checked.
VenueFormBlank ==
    [name |-> <<>>, city |-> <<>>, state |-> <<>>, address |-> "", phone |-> <<>>,
     website_link |-> "", facebook_link |-> "", image_link |-> "",
     seeking_description |-> ""]

\* No "name" key, a phone and a link that are malformed, an unknown state.
VenueFormNoName ==
    [city |-> <<"S", "F">>, state |-> <<"Z", "Z">>, address |-> "1 Main Street",
     phone |-> <<"1", "2", "3", "4", "5">>, genres |-> <<"Jazz">>,
     website_link |-> "fyyur", facebook_link |-> "", image_link |-> "",
     seeking_description |-> ""]

VenueRequests == {VenueFormA, VenueFormB, VenueFormBlank, VenueFormNoName}

ArtistFormA ==
    [name |-> <<"a", "B">>, city |-> <<"S", "F">>, state |-> <<"C", "A">>,
     phone |-> PhoneA, genres |-> <<"Jazz">>,
     website_link |-> "", facebook_link |-> "", image_link |-> "http://fyyur.io/a.png",
     seeking_venue |-> "y", seeking_description |-> "Looking for shows"]

ArtistFormB ==
    [name |-> <<"B">>, city |-> <<"N", "Y">>, state |-> <<"N", "Y">>,
     phone |-> <<>>, genres |-> <<"Rock n Roll", "Pop">>,
     website_link |-> "http://fyyur.io/b.png", facebook_link |-> "http://fyyur.io/b.png",
     image_link |-> "", seeking_description |-> ""]

ArtistFormBlank ==
    [name |-> <<>>, city |-> <<>>, state |-> <<>>, phone |-> <<>>,
     website_link |-> "", facebook_link |-> "", image_link |-> "",
     seeking_description |-> ""]

ArtistFormNoName ==
    [city |-> <<"S", "F">>, state |-> <<"Z", "Z">>,
     phone |-> <<"1", "2", "3", "4", "5">>, genres |-> <<"Jazz">>,
     website_link |-> "fyyur", facebook_link |-> "", image_link |-> "",
     seeking_description |-> ""]

ArtistRequests == {ArtistFormA, ArtistFormB, ArtistFormBlank, ArtistFormNoName}

\* A show form names any id of the model, existing or not; one form lacks
\* its start_time.
ShowRequests ==
    {[artist_id |-> a, venue_id |-> v, start_time |-> t] :
        a \in ArtistIds, v \in VenueIds, t \in Times}
    \cup {[artist_id |-> 1, venue_id |-> 1]}

SearchTerms == {<<>>, <<"a">>, <<"_">>}

\* What a load or a commit meets beyond what the request's values decide: no
\* fault, or the database failing; a commit that inserts can also meet a
\* ValueError of the driver.
DatabaseFaults == {"", "OperationalError"}
CommitFaults == DatabaseFaults \cup {"ValueError"}

-----------------------------------------------------------------------------
(* The tables.                                                             *)

\* Venue(name=..., ...) of create_venue_submission, with the id the insert
\* gives it.
NewVenue(id, form) ==
    [id |-> id,
     name |-> form["name"],
     city |-> form["city"],
     state |-> form["state"],
     address |-> form["address"],
     phone |-> Get(form, "phone", <<>>),
     genres |-> Getlist(form, "genres"),
     facebook_link |-> Get(form, "facebook_link", ""),
     image_link |-> Get(form, "image_link", ""),
     website |-> Get(form, "website_link", ""),
     seeking_talent |-> Checked(form, "seeking_talent"),
     seeking_description |-> Get(form, "seeking_description", "")]

\* Artist(name=..., ...) of create_artist_submission.
NewArtist(id, form) ==
    [id |-> id,
     name |-> form["name"],
     city |-> form["city"],
     state |-> form["state"],
     phone |-> Get(form, "phone", <<>>),
     genres |-> Getlist(form, "genres"),
     facebook_link |-> Get(form, "facebook_link", ""),
     image_link |-> Get(form, "image_link", ""),
     website |-> Get(form, "website_link", ""),
     seeking_venue |-> Checked(form, "seeking_venue"),
     seeking_description |-> Get(form, "seeking_description", "")]

\* Show(artist_id=..., venue_id=..., start_time=...) of create_show_submission.
NewShow(id, form) ==
    [id |-> id,
     artist_id |-> form["artist_id"],
     venue_id |-> form["venue_id"],
     start_time |-> form["start_time"]]

\* The table with one more row.
Insert(table, row) ==
    [i \in DOMAIN table \cup {row.id} |-> IF i = row.id THEN row ELSE table[i]]

\* The table without the row of that id.
Delete(table, id) == [i \in DOMAIN table \ {id} |-> table[i]]

\* db.session.get(Model, id)
SessionGet(table, id) == IF id \in DOMAIN table THEN table[id] ELSE None

\* ForeignKeysHold with the venue's key left unchecked.
ForeignKeysHold_ArtistOnly(show) ==
    show.artist_id \in DOMAIN Artist

\* The two foreign keys of a Show row: each names a row of its parent table.
ForeignKeysHold(show) ==
    /\ show.venue_id \in DOMAIN Venue
    /\ show.artist_id \in DOMAIN Artist

\* venue.shows: the Show rows whose venue_id is the venue's id, in id order.
VenueShows(venue_id) ==
    LET ids == Ascending({i \in DOMAIN Show : Show[i].venue_id = venue_id})
    IN [k \in 1..Len(ids) |-> Show[ids[k]]]

\* artist.shows: the Show rows whose artist_id is the artist's id.
ArtistShows(artist_id) ==
    LET ids == Ascending({i \in DOMAIN Show : Show[i].artist_id = artist_id})
    IN [k \in 1..Len(ids) |-> Show[ids[k]]]

\* What a Show object answers to: its columns, and the two backrefs that the
\* relationships of Venue and Artist give it.
ShowAttributes == {"id", "venue_id", "artist_id", "start_time", "venue", "artist"}

\* What a Venue object can be called with: the class defines __repr__ only.
VenueMethods == {"__repr__"}

-----------------------------------------------------------------------------
(* Responses.                                                              *)

\* render_template(page, **data), with the flashes, the session calls and
\* the exception (caught, or "") of the request.
render_template(op, req, page, data, flashes, calls, exc) ==
    [op |-> op, req |-> req, status |-> 200, page |-> page, data |-> data,
     flash |-> flashes, db |-> calls, exc |-> exc]

\* redirect(url_for(endpoint, ...)): no page, and the location to fetch next.
redirect(op, req, location, flashes, calls, exc) ==
    [op |-> op, req |-> req, status |-> 302, page |-> "", data |-> [location |-> location],
     flash |-> flashes, db |-> calls, exc |-> exc]

\* An exception left the handler: the 500 handler answers, and nothing the
\* handler flashed is rendered.
server_error(op, req, error, calls) ==
    [op |-> op, req |-> req, status |-> 500, page |-> "errors/500.html", data |-> None,
     flash |-> <<>>, db |-> calls, exc |-> error]

\* "Please fix the following errors: " + ", ".join(message)
ErrorFlash(errors) == <<"Please fix the following errors: ", errors>>

-----------------------------------------------------------------------------
(* Venues.                                                                 *)

index ==
    /\ resp' = render_template("index", None, "pages/home.html", None, <<>>, <<>>, "")
    /\ UNCHANGED <<tables, now, session>>

\* AreaLess with the two sort keys exchanged: ORDER BY Venue.city, Venue.state
AreaLess_CityFirst(a, b) ==
    \/ StrLess(a.city, b.city)
    \/ a.city = b.city /\ StrLess(a.state, b.state)

\* ORDER BY Venue.state, Venue.city
AreaLess(a, b) ==
    \/ StrLess(a.state, b.state)
    \/ a.state = b.state /\ StrLess(a.city, b.city)

RECURSIVE SortAreas(_)
SortAreas(S) ==
    IF S = {} THEN <<>>
    ELSE LET m == CHOOSE x \in S : \A y \in S \ {x} : AreaLess(x, y)
         IN <<m>> \o SortAreas(S \ {m})

\* The areas query: one row for each distinct (city, state), in order.
Areas ==
    SortAreas({[city |-> Venue[i].city, state |-> Venue[i].state] : i \in DOMAIN Venue})

\* len([show for show in venue.shows if show.start_time > datetime.now()])
VenueUpcoming(venue_id) ==
    Len(SelectSeq(VenueShows(venue_id), LAMBDA show : show.start_time > now))

\* The venues of one area of the listing.
AreaVenues(area) ==
    LET ids == SelectSeq(Ascending(DOMAIN Venue),
                         LAMBDA i : Venue[i].city = area.city /\ Venue[i].state = area.state)
    IN [k \in 1..Len(ids) |->
           [id |-> Venue[ids[k]].id, name |-> Venue[ids[k]].name,
            num_upcoming_shows |-> VenueUpcoming(ids[k])]]

venues ==
    LET areas == Areas
        data == [k \in 1..Len(areas) |->
                    [city |-> areas[k].city, state |-> areas[k].state,
                     venues |-> AreaVenues(areas[k])]]
    IN /\ resp' = render_template("venues", None, "pages/venues.html", [areas |-> data],
                                  <<>>, <<"query", "query">>, "")
       /\ UNCHANGED <<tables, now, session>>

\* Show rows with that venue_id that start after now, counted.
CountUpcomingByVenue(id) ==
    Cardinality({i \in DOMAIN Show : Show[i].venue_id = id /\ Show[i].start_time > now})

search_venues(search_term) ==
    LET results ==
            SelectSeq(Ascending(DOMAIN Venue),
                      LAMBDA i : Ilike(Venue[i].name, <<"%">> \o search_term \o <<"%">>))
        data == [k \in 1..Len(results) |->
                    [id |-> Venue[results[k]].id, name |-> Venue[results[k]].name,
                     num_upcoming_shows |-> CountUpcomingByVenue(Venue[results[k]].id)]]
        response == [count |-> Len(results), data |-> data]
    IN /\ resp' = render_template("search_venues", [search_term |-> search_term],
                                  "pages/search_venues.html",
                                  [results |-> response, search_term |-> search_term],
                                  <<>>, <<"query">> \o [k \in 1..Len(results) |-> "query"], "")
       /\ UNCHANGED <<tables, now, session>>

\* One entry of past_shows or upcoming_shows of a venue's page.
VenueTempShow(show) ==
    [artist_id |-> show.artist_id,
     artist_name |-> Artist[show.artist_id].name,
     artist_image_link |-> Artist[show.artist_id].image_link,
     start_time |-> Strftime(show.start_time)]

show_venue(venue_id) ==
    LET venue == SessionGet(Venue, venue_id)
        req == [venue_id |-> venue_id]
        shows_ == IF venue = None THEN <<>> ELSE VenueShows(venue_id)
        past == SelectSeq(shows_, LAMBDA show : show.start_time <= now)
        upcoming == SelectSeq(shows_, LAMBDA show : ~(show.start_time <= now))
        past_shows == [k \in 1..Len(past) |-> VenueTempShow(past[k])]
        upcoming_shows == [k \in 1..Len(upcoming) |-> VenueTempShow(upcoming[k])]
    IN /\ resp' =
            IF venue = None
            THEN render_template("show_venue", req, "errors/404.html", None, <<>>, <<"get">>, "")
            ELSE IF shows_ # <<>> /\ "Artist" \notin ShowAttributes
            THEN server_error("show_venue", req, "AttributeError", <<"get">>)
            ELSE render_template("show_venue", req, "pages/show_venue.html",
                    [venue |-> venue, past_shows |-> past_shows,
                     upcoming_shows |-> upcoming_shows,
                     past_shows_count |-> Len(past_shows),
                     upcoming_shows_count |-> Len(upcoming_shows)],
                    <<>>, <<"get">>, "")
       /\ UNCHANGED <<tables, now, session>>

create_venue_form ==
    /\ resp' = render_template("create_venue_form", None, "forms/new_venue.html", None,
                               <<>>, <<>>, "")
    /\ UNCHANGED <<tables, now, session>>

\* TryCreate with the close at the end of the try and except blocks, not in
\* a finally block.
TryCreate_NoFinally(exc) ==
    [calls |-> <<"add", "commit">>
               \o (IF exc = "ValueError" THEN <<"rollback">> ELSE <<>>)
               \o (IF exc \in {"", "ValueError"} THEN <<"close">> ELSE <<>>),
     escaped |-> exc \notin {"", "ValueError"}]

\* The try statement of the three create handlers around an add and a commit
\* that raises exc ("" for none): the session calls made, and whether the
\* exception leaves the handler.
TryCreate(exc) ==
    [calls |-> <<"add", "commit">>
               \o (IF exc = "ValueError" THEN <<"rollback">> ELSE <<>>)
               \o <<"close">>,
     escaped |-> exc \notin {"", "ValueError"}]

create_venue_submission(form, fault) ==
    LET errors == VenueForm_errors(form)
        id == venue_id_seq + 1
        try == TryCreate(fault)
    IN IF errors = <<>>
       THEN /\ venue_id_seq < MaxVenues
            /\ IF fault = ""
               THEN Venue' = Insert(Venue, NewVenue(id, form)) /\ venue_id_seq' = id
               ELSE UNCHANGED <<Venue, venue_id_seq>>
            /\ resp' =
                 IF try.escaped
                 THEN server_error("create_venue_submission", form, fault, try.calls)
                 ELSE render_template("create_venue_submission", form, "pages/home.html",
                        None,
                        <<<<"Venue ", form["name"], " was successfully listed!">>>>,
                        try.calls, fault)
            /\ UNCHANGED <<Artist, Show, artist_id_seq, show_id_seq, now, session>>
       ELSE /\ fault = ""
            /\ resp' = render_template("create_venue_submission", form,
                         "forms/new_venue.html", None, <<ErrorFlash(errors)>>, <<>>, "")
            /\ UNCHANGED <<tables, now, session>>

\* The try statement of delete_venue and of the two edit handlers, which
\* catches every exception: the session calls after the load.
TryMutate(exc, committed) ==
    (IF committed THEN <<"commit">> ELSE <<>>)
    \o (IF exc # "" THEN <<"rollback">> ELSE <<>>)
    \o <<"close">>

delete_venue(venue_id) ==
    LET venue == SessionGet(Venue, venue_id)
        req == [venue_id |-> venue_id]
        callable == venue # None /\ "delete" \in VenueMethods
        referenced == \E i \in DOMAIN Show : Show[i].venue_id = venue_id
        exc == IF ~callable THEN "AttributeError"
               ELSE IF referenced THEN "IntegrityError" ELSE ""
        error == exc # ""
        calls == <<"get">> \o TryMutate(exc, callable)
    IN /\ Venue' = IF error THEN Venue ELSE Delete(Venue, venue_id)
       /\ resp' = render_template("delete_venue", req, "pages/home.html", None,
                    IF error
                    THEN <<<<"An error occurred.  Venue ", venue_id, " could not be deleted.">>>>
                    ELSE <<<<"Venue ", venue_id, " was successfully deleted.">>>>,
                    calls, exc)
       /\ UNCHANGED <<Artist, Show, venue_id_seq, artist_id_seq, show_id_seq, now, session>>

-----------------------------------------------------------------------------
(* Artists.                                                                *)

\* ORDER BY Artist.name
RECURSIVE SortByName(_)
SortByName(S) ==
    IF S = {} THEN <<>>
    ELSE LET m == CHOOSE x \in S : \A y \in S \ {x} :
                      \/ StrLess(Artist[x].name, Artist[y].name)
                      \/ Artist[x].name = Artist[y].name /\ x < y
         IN <<m>> \o SortByName(S \ {m})

artists ==
    /\ resp' = render_template("artists", None, "pages/artists.html",
                 [artists |-> LET ids == SortByName(DOMAIN Artist)
                              IN [k \in 1..Len(ids) |-> Artist[ids[k]]]],
                 <<>>, <<"query">>, "")
    /\ UNCHANGED <<tables, now, session>>

\* The count of search_artists: Show.venue_id == result.id
CountUpcomingOfResult(id) ==
    Cardinality({i \in DOMAIN Show : Show[i].venue_id = id /\ Show[i].start_time > now})

search_artists(search_term) ==
    LET results ==
            SelectSeq(Ascending(DOMAIN Artist),
                      LAMBDA i : Ilike(Artist[i].name, <<"%">> \o search_term \o <<"%">>))
        data == [k \in 1..Len(results) |->
                    [id |-> Artist[results[k]].id, name |-> Artist[results[k]].name,
                     num_upcoming_shows |-> CountUpcomingOfResult(Artist[results[k]].id)]]
        response == [count |-> Len(results), data |-> data]
    IN /\ resp' = render_template("search_artists", [search_term |-> search_term],
                                  "pages/search_artists.html",
                                  [results |-> response, search_term |-> search_term],
                                  <<>>, <<"query">> \o [k \in 1..Len(results) |-> "query"], "")
       /\ UNCHANGED <<tables, now, session>>

\* One entry of past_shows or upcoming_shows of an artist's page.
ArtistTempShow(show) ==
    [venue_id |-> show.venue_id,
     venue_name |-> Venue[show.venue_id].name,
     venue_image_link |-> Venue[show.venue_id].image_link,
     start_time |-> Strftime(show.start_time)]

show_artist(artist_id) ==
    LET artist == SessionGet(Artist, artist_id)
        req == [artist_id |-> artist_id]
        shows_ == IF artist = None THEN <<>> ELSE ArtistShows(artist_id)
        past == SelectSeq(shows_, LAMBDA show : show.start_time <= now)
        upcoming == SelectSeq(shows_, LAMBDA show : ~(show.start_time <= now))
        past_shows == [k \in 1..Len(past) |-> ArtistTempShow(past[k])]
        upcoming_shows == [k \in 1..Len(upcoming) |-> ArtistTempShow(upcoming[k])]
    IN /\ resp' =
            IF artist = None
            THEN render_template("show_artist", req, "errors/404.html", None, <<>>, <<"get">>, "")
            ELSE IF shows_ # <<>> /\ "Venue" \notin ShowAttributes
            THEN server_error("show_artist", req, "AttributeError", <<"get">>)
            ELSE render_template("show_artist", req, "pages/show_artist.html",
                    [artist |-> artist, past_shows |-> past_shows,
                     upcoming_shows |-> upcoming_shows,
                     past_shows_count |-> Len(past_shows),
                     upcoming_shows_count |-> Len(upcoming_shows)],
                    <<>>, <<"get">>, "")
       /\ UNCHANGED <<tables, now, session>>

-----------------------------------------------------------------------------
(* Update.                                                                 *)

edit_artist(artist_id) ==
    LET artist == SessionGet(Artist, artist_id)
        form == IF artist = None THEN None
                ELSE [name |-> artist.name, genres |-> artist.genres, city |-> artist.city,
                      state |-> artist.state, phone |-> artist.phone,
                      website_link |-> artist.website,
                      facebook_link |-> artist.facebook_link,
                      seeking_venue |-> artist.seeking_venue,
                      seeking_description |-> artist.seeking_description,
                      image_link |-> artist.image_link]
    IN /\ resp' = render_template("edit_artist", [artist_id |-> artist_id],
                    "forms/edit_artist.html", [form |-> form, artist |-> artist],
                    <<>>, <<"get">>, "")
       /\ UNCHANGED <<tables, now, session>>

\* The keys edit_artist_submission reads with request.form[key], after "name".
ArtistEditKeys ==
    {"city", "state", "phone", "website_link", "facebook_link", "seeking_description",
     "image_link"}

\* The assignments of edit_artist_submission.
EditedArtist(artist, form) ==
    [artist EXCEPT
        !.name = form["name"],
        !.genres = Getlist(form, "genres"),
        !.city = form["city"],
        !.state = form["state"],
        !.phone = form["phone"],
        !.website = form["website_link"],
        !.facebook_link = form["facebook_link"],
        !.seeking_venue = Checked(form, "seeking_venue"),
        !.seeking_description = form["seeking_description"],
        !.image_link = form["image_link"]]

\* The exception of the try block of an edit handler, "" for none: a key the
\* form lacks, a record that is None, or the fault its commit meets.
EditException(record, form, keys, fault) ==
    IF "name" \notin DOMAIN form THEN "BadRequestKeyError"
    ELSE IF record = None THEN "AttributeError"
    ELSE IF ~(keys \subseteq DOMAIN form) THEN "BadRequestKeyError"
    ELSE fault

\* Whether the try block of an edit handler gets as far as its commit.
ReachesCommit(record, form, keys) ==
    "name" \in DOMAIN form /\ record # None /\ keys \subseteq DOMAIN form

edit_artist_submission(artist_id, form, load_fault, fault) ==
    LET req == [artist_id |-> artist_id, form |-> form]
        artist == SessionGet(Artist, artist_id)
        exc == EditException(artist, form, ArtistEditKeys, fault)
        committed == ReachesCommit(artist, form, ArtistEditKeys)
        error == exc # ""
    IN IF load_fault # ""
       THEN /\ fault = ""
            /\ resp' = server_error("edit_artist_submission", req, load_fault, <<"get">>)
            /\ UNCHANGED <<tables, now, session>>
       ELSE /\ Artist' = IF error THEN Artist
                         ELSE [Artist EXCEPT ![artist_id] = EditedArtist(artist, form)]
            /\ resp' = redirect("edit_artist_submission", req, <<"show_artist", artist_id>>,
                         IF error THEN <<"An error occurred.  Artist could not be changed.">>
                         ELSE <<"Artist was successfully updated!">>,
                         <<"get">> \o TryMutate(exc, committed), exc)
            /\ UNCHANGED <<Venue, Show, venue_id_seq, artist_id_seq, show_id_seq, now, session>>

edit_venue(venue_id) ==
    LET venue == SessionGet(Venue, venue_id)
        form == IF venue = None THEN None
                ELSE [name |-> venue.name, genres |-> venue.genres,
                      address |-> venue.address, city |-> venue.city,
                      state |-> venue.state, phone |-> venue.phone,
                      website_link |-> venue.website,
                      facebook_link |-> venue.facebook_link,
                      seeking_talent |-> venue.seeking_talent,
                      seeking_description |-> venue.seeking_description,
                      image_link |-> venue.image_link]
    IN /\ resp' = render_template("edit_venue", [venue_id |-> venue_id],
                    "forms/edit_venue.html", [form |-> form, venue |-> venue],
                    <<>>, <<"get">>, "")
       /\ UNCHANGED <<tables, now, session>>

\* The keys edit_venue_submission reads with request.form[key], after "name".
VenueEditKeys == ArtistEditKeys \cup {"address"}

\* The assignments of edit_venue_submission.
EditedVenue(venue, form) ==
    [venue EXCEPT
        !.name = form["name"],
        !.genres = Getlist(form, "genres"),
        !.address = form["address"],
        !.city = form["city"],
        !.state = form["state"],
        !.phone = form["phone"],
        !.website = form["website_link"],
        !.facebook_link = form["facebook_link"],
        !.seeking_talent = Checked(form, "seeking_talent"),
        !.seeking_description = form["seeking_description"],
        !.image_link = form["image_link"]]

edit_venue_submission(venue_id, form, load_fault, fault) ==
    LET req == [venue_id |-> venue_id, form |-> form]
        venue == SessionGet(Venue, venue_id)
        exc == EditException(venue, form, VenueEditKeys, fault)
        committed == ReachesCommit(venue, form, VenueEditKeys)
        error == exc # ""
    IN IF load_fault # ""
       THEN /\ fault = ""
            /\ resp' = server_error("edit_venue_submission", req, load_fault, <<"get">>)
            /\ UNCHANGED <<tables, now, session>>
       ELSE /\ Venue' = IF error THEN Venue
                        ELSE [Venue EXCEPT ![venue_id] = EditedVenue(venue, form)]
            /\ resp' = redirect("edit_venue_submission", req, <<"show_venue", venue_id>>,
                         IF error THEN <<"An error occurred.  Venue could not be changed.">>
                         ELSE <<"Venue was successfully updated!">>,
                         <<"get">> \o TryMutate(exc, committed), exc)
            /\ UNCHANGED <<Artist, Show, venue_id_seq, artist_id_seq, show_id_seq, now, session>>

-----------------------------------------------------------------------------
(* Create Artist.                                                          *)

create_artist_form ==
    /\ resp' = render_template("create_artist_form", None, "forms/new_artist.html", None,
                               <<>>, <<>>, "")
    /\ UNCHANGED <<tables, now, session>>

create_artist_submission(form, fault) ==
    LET errors == ArtistForm_errors(form)
        id == artist_id_seq + 1
        try == TryCreate(fault)
    IN IF errors = <<>>
       THEN /\ artist_id_seq < MaxArtists
            /\ IF fault = ""
               THEN Artist' = Insert(Artist, NewArtist(id, form)) /\ artist_id_seq' = id
               ELSE UNCHANGED <<Artist, artist_id_seq>>
            /\ resp' =
                 IF try.escaped
                 THEN server_error("create_artist_submission", form, fault, try.calls)
                 ELSE render_template("create_artist_submission", form, "pages/home.html",
                        None,
                        <<<<"Artist ", form["name"], " was successfully listed!">>>>,
                        try.calls, fault)
            /\ UNCHANGED <<Venue, Show, venue_id_seq, show_id_seq, now, session>>
       ELSE /\ fault = ""
            /\ resp' = render_template("create_artist_submission", form,
                         "forms/new_artist.html", None, <<ErrorFlash(errors)>>, <<>>, "")
            /\ UNCHANGED <<tables, now, session>>

-----------------------------------------------------------------------------
(* Shows.                                                                  *)

\* query(Show, Venue, Artist).join(Venue).join(Artist): the Show rows that
\* have both parents, in id order.
ShowsQuery ==
    Ascending({i \in DOMAIN Show :
                  Show[i].venue_id \in DOMAIN Venue /\ Show[i].artist_id \in DOMAIN Artist})

shows ==
    LET ids == ShowsQuery
        data == [k \in 1..Len(ids) |->
                    [venue_id |-> Show[ids[k]].venue_id,
                     venue_name |-> Venue[Show[ids[k]].venue_id].name,
                     artist_id |-> Show[ids[k]].artist_id,
                     artist_name |-> Artist[Show[ids[k]].artist_id].name,
                     artist_image_link |-> Artist[Show[ids[k]].artist_id].image_link,
                     start_time |-> Strftime(Show[ids[k]].start_time)]]
    IN /\ resp' = render_template("shows", None, "pages/shows.html", [shows |-> data],
                                  <<>>, <<"query">>, "")
       /\ UNCHANGED <<tables, now, session>>

create_shows ==
    /\ resp' = render_template("create_shows", None, "forms/new_show.html", None,
                               <<>>, <<>>, "")
    /\ UNCHANGED <<tables, now, session>>

\* The exception the commit of a new Show raises: the fault it meets, or the
\* database's refusal of a foreign key that names no row.
ShowCommitException(show, fault) ==
    IF fault # "" THEN fault
    ELSE IF ~ForeignKeysHold(show) THEN "IntegrityError"
    ELSE ""

create_show_submission(form, fault) ==
    LET errors == ShowForm_errors(form)
        id == show_id_seq + 1
        show == NewShow(id, form)
        exc == ShowCommitException(show, fault)
        try == TryCreate(exc)
    IN IF errors = <<>>
       THEN /\ show_id_seq < MaxShows
            /\ Show' = IF exc = "" THEN Insert(Show, show) ELSE Show
            \* the INSERT draws its id from the sequence before the database
            \* checks the row
            /\ show_id_seq' = IF exc \in {"", "IntegrityError"} THEN id ELSE show_id_seq
            /\ resp' =
                 IF try.escaped
                 THEN server_error("create_show_submission", form, exc, try.calls)
                 ELSE render_template("create_show_submission", form, "pages/home.html",
                        None, <<"Show was successfully listed!">>, try.calls, exc)
            /\ UNCHANGED <<Venue, Artist, venue_id_seq, artist_id_seq, now, session>>
       ELSE /\ fault = ""
            /\ resp' = render_template("create_show_submission", form,
                         "forms/new_show.html", None, <<ErrorFlash(errors)>>, <<>>, "")
            /\ UNCHANGED <<tables, now, session>>

-----------------------------------------------------------------------------
(* The system.                                                             *)

\* No request answered in the step that led to the state.
\* The requests that can be in flight at once.
Requests == {1, 2}

\* db.session of a request that is not in flight: nothing loaded.
Closed ==
    [pc |-> "closed", model |-> "", id |-> 0, form |-> None, record |-> None,
     loaded |-> None]

NoResponse ==
    [op |-> "", req |-> None, status |-> 0, page |-> "", data |-> None,
     flash |-> <<>>, db |-> <<>>, exc |-> ""]

\* The clock advances between requests; the last response is then of an
\* earlier time and no longer held.
Tick ==
    /\ now < MaxTime
    /\ now' = now + 1
    /\ resp' = NoResponse
    /\ UNCHANGED <<tables, session>>

\* Empty tables, and no request answered yet.
Init ==
    /\ Venue = <<>>
    /\ Artist = <<>>
    /\ Show = <<>>
    /\ venue_id_seq = 0
    /\ artist_id_seq = 0
    /\ show_id_seq = 0
    /\ now = 0
    /\ resp = NoResponse
    /\ session = [r \in Requests |-> Closed]

Next ==
    \/ index
    \/ venues
    \/ \E t \in SearchTerms : search_venues(t)
    \/ \E id \in VenueIds : show_venue(id)
    \/ create_venue_form
    \/ \E form \in VenueRequests, fault \in CommitFaults :
          create_venue_submission(form, fault)
    \/ \E id \in VenueIds : delete_venue(id)
    \/ artists
    \/ \E t \in SearchTerms : search_artists(t)
    \/ \E id \in ArtistIds : show_artist(id)
    \/ \E id \in ArtistIds : edit_artist(id)
    \/ \E id \in ArtistIds, form \in ArtistRequests, lf \in DatabaseFaults, fault \in DatabaseFaults :
          edit_artist_submission(id, form, lf, fault)
    \/ \E id \in VenueIds : edit_venue(id)
    \/ \E id \in VenueIds, form \in VenueRequests, lf \in DatabaseFaults, fault \in DatabaseFaults :
          edit_venue_submission(id, form, lf, fault)
    \/ create_artist_form
    \/ \E form \in ArtistRequests, fault \in CommitFaults :
          create_artist_submission(form, fault)
    \/ shows
    \/ create_shows
    \/ \E form \in ShowRequests, fault \in CommitFaults :
          create_show_submission(form, fault)
    \/ Tick

Spec == Init /\ [][Next]_vars

-----------------------------------------------------------------------------
(* Edit submissions in flight together.  Each request has its own          *)
(* db.session: what it loads and assigns stays in that session until its   *)
(* commit, and the handler's three steps - load, assignments, commit -     *)
(* interleave with those of the other request.                             *)

\* Edits that change one thing of the record made from form A: its name, or
\* its city and state.
ArtistEditName == [ArtistFormA EXCEPT !.name = <<"B">>]
ArtistEditCity == [ArtistFormA EXCEPT !.city = <<"N", "Y">>, !.state = <<"N", "Y">>]
VenueEditName == [VenueFormA EXCEPT !.name = <<"b">>]
VenueEditCity == [VenueFormA EXCEPT !.city = <<"N", "Y">>, !.state = <<"N", "Y">>]

Models == {"Artist", "Venue"}

EditRequests(model) ==
    IF model = "Artist" THEN {ArtistEditName, ArtistEditCity, ArtistFormNoName}
    ELSE {VenueEditName, VenueEditCity, VenueFormNoName}

ModelIds(model) == IF model = "Artist" THEN ArtistIds ELSE VenueIds

Table(model) == IF model = "Artist" THEN Artist ELSE Venue

EditKeys(model) == IF model = "Artist" THEN ArtistEditKeys ELSE VenueEditKeys

Edited(model, record, form) ==
    IF model = "Artist" THEN EditedArtist(record, form) ELSE EditedVenue(record, form)

\* The request, the handler and the flashes of an edit submission.
EditReq(s) ==
    IF s.model = "Artist" THEN [artist_id |-> s.id, form |-> s.form]
    ELSE [venue_id |-> s.id, form |-> s.form]

EditOp(s) ==
    IF s.model = "Artist" THEN "edit_artist_submission" ELSE "edit_venue_submission"

EditLocation(s) ==
    IF s.model = "Artist" THEN <<"show_artist", s.id>> ELSE <<"show_venue", s.id>>

EditFlash(s, error) ==
    IF s.model = "Artist"
    THEN (IF error THEN <<"An error occurred.  Artist could not be changed.">>
          ELSE <<"Artist was successfully updated!">>)
    ELSE (IF error THEN <<"An error occurred.  Venue could not be changed.">>
          ELSE <<"Venue was successfully updated!">>)

\* The attributes of a loaded record whose assigned value is not the value
\* that was loaded: the columns of the UPDATE the session emits at commit.
Modified(record, loaded) == {a \in DOMAIN record : record[a] # loaded[a]}

\* The row after that UPDATE: the modified columns take the record's values,
\* every other column keeps what the table holds by then.
Flush(row, record, loaded) ==
    [a \in DOMAIN row |-> IF a \in Modified(record, loaded) THEN record[a] ELSE row[a]]

\* artist = db.session.get(Artist, artist_id): the request's session loads
\* the row as committed at this moment.
edit_load(r, model, id, form) ==
    /\ session[r].pc = "closed"
    /\ session' = [session EXCEPT ![r] =
                      [pc |-> "loaded", model |-> model, id |-> id, form |-> form,
                       record |-> SessionGet(Table(model), id),
                       loaded |-> SessionGet(Table(model), id)]]
    /\ UNCHANGED <<tables, now, resp>>

\* The assignments of the try block, on the session's record.  One that
\* raises goes to the except block: rollback, close, the error flash and
\* the redirect.
edit_assign(r) ==
    LET s == session[r]
        exc == EditException(s.record, s.form, EditKeys(s.model), "")
    IN /\ s.pc = "loaded"
       /\ IF exc # ""
          THEN /\ session' = [session EXCEPT ![r] = Closed]
               /\ resp' = redirect(EditOp(s), EditReq(s), EditLocation(s),
                                   EditFlash(s, TRUE),
                                   <<"get">> \o TryMutate(exc, FALSE), exc)
          ELSE /\ session' = [session EXCEPT ![r].pc = "assigned",
                                             ![r].record = Edited(s.model, s.record, s.form)]
               /\ UNCHANGED resp
       /\ UNCHANGED <<tables, now>>

\* db.session.commit(), then the rest of the handler: close, the flash and
\* the redirect.  No version column guards the UPDATE.
edit_commit(r, fault) ==
    LET s == session[r]
        error == fault # ""
    IN /\ s.pc = "assigned"
       /\ IF error THEN UNCHANGED <<Artist, Venue>>
          ELSE IF s.model = "Artist"
          THEN /\ Artist' = [Artist EXCEPT ![s.id] = Flush(@, s.record, s.loaded)]
               /\ UNCHANGED Venue
          ELSE /\ Venue' = [Venue EXCEPT ![s.id] = Flush(@, s.record, s.loaded)]
               /\ UNCHANGED Artist
       /\ session' = [session EXCEPT ![r] = Closed]
       /\ resp' = redirect(EditOp(s), EditReq(s), EditLocation(s), EditFlash(s, error),
                           <<"get">> \o TryMutate(fault, TRUE), fault)
       /\ UNCHANGED <<Show, venue_id_seq, artist_id_seq, show_id_seq, now>>

\* One venue and one artist, each as created from form A; no request in
\* flight.
InitConcurrent ==
    /\ Venue = Insert(<<>>, NewVenue(1, VenueFormA))
    /\ Artist = Insert(<<>>, NewArtist(1, ArtistFormA))
    /\ Show = <<>>
    /\ venue_id_seq = 1
    /\ artist_id_seq = 1
    /\ show_id_seq = 0
    /\ now = 0
    /\ resp = NoResponse
    /\ session = [r \in Requests |-> Closed]

NextConcurrent ==
    \/ \E r \in Requests, model \in Models :
          \E id \in ModelIds(model), form \in EditRequests(model) :
             edit_load(r, model, id, form)
    \/ \E r \in Requests : edit_assign(r)
    \/ \E r \in Requests, fault \in DatabaseFaults : edit_commit(r, fault)

SpecConcurrent == InitConcurrent /\ [][NextConcurrent]_vars

-----------------------------------------------------------------------------
(* Properties.                                                             *)

Last(s) == s[Len(s)]

\* t occurs in s, ignoring case.
ContainsIgnoringCase(s, t) ==
    \E k \in 0..(Len(s) - Len(t)) : \A j \in 1..Len(t) : ToLower(s[k + j]) = ToLower(t[j])

CreateOps ==
    {"create_venue_submission", "create_artist_submission", "create_show_submission"}
EditOps == {"edit_venue_submission", "edit_artist_submission"}
FormPages == {"forms/new_venue.html", "forms/new_artist.html", "forms/new_show.html"}

\* C1: a delete of an existing venue removes its row, flashes the success
\* notification and renders the home page; the venue can then no longer be
\* loaded by its id.
C1_DeleteRemovesVenue ==
    [][(resp'.op = "delete_venue" /\ resp'.req.venue_id \in DOMAIN Venue) =>
          /\ resp'.req.venue_id \notin DOMAIN Venue'
          /\ resp'.flash =
                <<<<"Venue ", resp'.req.venue_id, " was successfully deleted.">>>>
          /\ resp'.page = "pages/home.html"]_vars

\* C2: search artists reports, for every artist whose name contains the
\* term ignoring case, the number of Shows of that artist_id that start
\* after now, and its count is the number of those artists.  (Stated for
\* the terms that hold no "%" and no "_", which ILIKE reads as patterns.)
C2_SearchArtistsCountsByArtist ==
    (resp.op = "search_artists" /\ Range(resp.req.search_term) \cap {"%", "_"} = {}) =>
        LET results == resp.data.results
            matching == {i \in DOMAIN Artist :
                            ContainsIgnoringCase(Artist[i].name, resp.req.search_term)}
        IN /\ results.count = Cardinality(matching)
           /\ \A i \in matching :
                 \E k \in 1..Len(results.data) :
                    /\ results.data[k].id = i
                    /\ results.data[k].num_upcoming_shows =
                          Cardinality({j \in DOMAIN Show :
                                          /\ Show[j].artist_id = i
                                          /\ Show[j].start_time > now})

\* The partition a detail page is to show for the Show rows in S.
Partitioned(data, S) ==
    /\ Len(data.past_shows) = Cardinality({j \in S : Show[j].start_time <= now})
    /\ Len(data.upcoming_shows) = Cardinality({j \in S : Show[j].start_time > now})
    /\ \A k \in 1..Len(data.past_shows) :
          \E j \in S : /\ Show[j].start_time <= now
                       /\ data.past_shows[k].start_time = Strftime(Show[j].start_time)
    /\ \A k \in 1..Len(data.upcoming_shows) :
          \E j \in S : /\ Show[j].start_time > now
                       /\ data.upcoming_shows[k].start_time = Strftime(Show[j].start_time)
    /\ data.past_shows_count = Len(data.past_shows)
    /\ data.upcoming_shows_count = Len(data.upcoming_shows)
    /\ data.past_shows_count + data.upcoming_shows_count = Cardinality(S)

\* C3: the detail page of an existing venue (artist) shows each of its shows
\* in exactly one of past_shows (start_time <= now) and upcoming_shows
\* (start_time > now), with the two counts the lengths of the two lists.
C3_DetailPartitionsShows ==
    /\ (resp.op = "show_venue" /\ resp.req.venue_id \in DOMAIN Venue) =>
          /\ resp.page = "pages/show_venue.html"
          /\ Partitioned(resp.data,
                {j \in DOMAIN Show : Show[j].venue_id = resp.req.venue_id})
    /\ (resp.op = "show_artist" /\ resp.req.artist_id \in DOMAIN Artist) =>
          /\ resp.page = "pages/show_artist.html"
          /\ Partitioned(resp.data,
                {j \in DOMAIN Show : Show[j].artist_id = resp.req.artist_id})

\* The show form of the last request names an artist or a venue that does
\* not exist, and the database is up.
DanglingShowRequest ==
    /\ resp.op = "create_show_submission"
    /\ {"artist_id", "venue_id"} \subseteq DOMAIN resp.req
    /\ resp.req.artist_id \notin DOMAIN Artist \/ resp.req.venue_id \notin DOMAIN Venue
    /\ resp.exc \in {"", "IntegrityError"}

\* C4: a create show that names a missing artist or venue fails validation,
\* or fails at persistence with a fault the handler catches and rolls back;
\* the Show is in no later listing.
C4_DanglingShowCaught ==
    DanglingShowRequest =>
        /\ \/ resp.page = "forms/new_show.html"
           \/ /\ resp.exc = "IntegrityError"
              /\ resp.status # 500
              /\ "rollback" \in Range(resp.db)
        /\ \A j \in DOMAIN Show :
              ~(Show[j].artist_id = resp.req.artist_id /\ Show[j].venue_id = resp.req.venue_id)

C6_VenueFieldsNonEmpty ==
    \A v \in DOMAIN Venue :
        /\ Venue[v].name # <<>>
        /\ Venue[v].address # ""
        /\ Venue[v].city # <<>>
        /\ Venue[v].state # <<>>
        /\ Venue[v].genres \in Seq(GenreChoices)

\* The values an accepted edit of an artist is to leave in its row.
Submitted(id, form) ==
    [id |-> id, name |-> form["name"], genres |-> Getlist(form, "genres"),
     city |-> form["city"], state |-> form["state"], phone |-> form["phone"],
     website |-> form["website_link"], facebook_link |-> form["facebook_link"],
     seeking_venue |-> "seeking_venue" \in DOMAIN form,
     seeking_description |-> form["seeking_description"],
     image_link |-> form["image_link"]]

\* C7: an accepted edit of an existing artist leaves the submitted values in
\* every mutable attribute, its id, its shows and every other row as they
\* were; the artist's detail page, fetched next, shows the new values.
C7_EditArtistOverwrites ==
    [][/\ (/\ resp'.op = "edit_artist_submission" /\ resp'.status = 302 /\ resp'.exc = ""
           /\ resp'.req.artist_id \in DOMAIN Artist) =>
              /\ DOMAIN Artist' = DOMAIN Artist
              /\ \A a \in DOMAIN Artist :
                    Artist'[a] = IF a = resp'.req.artist_id
                                 THEN Submitted(a, resp'.req.form) ELSE Artist[a]
              /\ Venue' = Venue /\ Show' = Show
       /\ (/\ resp.op = "edit_artist_submission" /\ resp.status = 302 /\ resp.exc = ""
           /\ resp'.op = "show_artist" /\ resp'.req.artist_id = resp.req.artist_id) =>
              /\ resp'.page = "pages/show_artist.html"
              /\ resp'.data.artist = Submitted(resp.req.artist_id, resp.req.form)]_vars

\* The try statement of the handler of the last request was entered: a
\* create whose form validated, an edit whose load succeeded, a delete.
EnteredTry ==
    \/ resp.op \in CreateOps /\ resp.page \notin FormPages
    \/ resp.op \in EditOps /\ resp.status # 500
    \/ resp.op = "delete_venue"

C9_FailedCreateFlashesSuccess ==
    [][(resp'.op \in CreateOps /\ resp'.page \notin FormPages /\ resp'.exc # "") =>
          /\ "rollback" \in Range(resp'.db)
          /\ Last(resp'.db) = "close"
          /\ Venue' = Venue /\ Artist' = Artist /\ Show' = Show
          /\ Len(resp'.flash) = 1
          /\ resp'.page = "pages/home.html"
          /\ resp'.status # 500]_vars

\* (state, city) of a comes before that of b.
Precedes(a, b) ==
    \/ StrLess(a.state, b.state)
    \/ a.state = b.state /\ StrLess(a.city, b.city)

\* C10: the listing has one area for each distinct (city, state) of the
\* venues, ordered by state then city; every venue is in exactly one area,
\* the one of its own city and state, with its number of shows after now.
C10_VenuesGroupedByArea ==
    resp.op = "venues" =>
        LET areas == resp.data.areas
            places == {<<k, j>> \in (1..Len(areas)) \X (1..MaxVenues) :
                          j <= Len(areas[k].venues)}
        IN /\ \A v \in DOMAIN Venue :
                 \E k \in 1..Len(areas) :
                    areas[k].city = Venue[v].city /\ areas[k].state = Venue[v].state
           /\ \A k \in 1..Len(areas) :
                 \E v \in DOMAIN Venue :
                    areas[k].city = Venue[v].city /\ areas[k].state = Venue[v].state
           /\ \A k, l \in 1..Len(areas) : k < l => Precedes(areas[k], areas[l])
           /\ \A v \in DOMAIN Venue :
                 /\ Cardinality({p \in places : areas[p[1]].venues[p[2]].id = v}) = 1
                 /\ \A p \in places :
                       areas[p[1]].venues[p[2]].id = v =>
                          /\ areas[p[1]].city = Venue[v].city
                          /\ areas[p[1]].state = Venue[v].state
                          /\ areas[p[1]].venues[p[2]].name = Venue[v].name
                          /\ areas[p[1]].venues[p[2]].num_upcoming_shows =
                                Cardinality({j \in DOMAIN Show :
                                                /\ Show[j].venue_id = v
                                                /\ Show[j].start_time > now})

\* A listing of two areas, one of whose venues has a show to come.
C10_Witness ==
    /\ resp.op = "venues"
    /\ Len(resp.data.areas) = 2
    /\ \E k \in 1..2 : resp.data.areas[k].venues[1].num_upcoming_shows > 0

\* A request whose commit step this is: it had assigned, and is closed after.
Commits(r) == session[r].pc = "assigned" /\ session'[r].pc = "closed"

\* C11: edit submissions of one record run together, their loads,
\* assignments and commits interleaved in any order: every commit that meets
\* no database fault succeeds with the success flash, and the stored record
\* is then the complete field set of the request that committed - of the
\* last writer, never a mixture of two submissions.
C11_LastWriterWins ==
    [][\A r \in Requests :
          (Commits(r) /\ resp'.exc = "") =>
             /\ resp'.flash = EditFlash(session[r], FALSE)
             /\ (IF session[r].model = "Artist" THEN Artist' ELSE Venue')[session[r].id] =
                   Edited(session[r].model, session[r].loaded, session[r].form)]_vars

=============================================================================
